---- MODULE Spec2Model ----
(***************************************************************************)
(* The EEG preprocessing demo script eeg_pipeline.py as a state machine.   *)
(* The script is a straight line of statements; each statement is one      *)
(* action.  The calls into the mne library are modelled by what the call   *)
(* with the script's arguments does to the script's objects (raw, events,  *)
(* epochs, evoked).  An exception raised by a statement is not caught      *)
(* anywhere in the script and ends the process.                            *)
(***************************************************************************)
EXTENDS Integers, Sequences, FiniteSets, TLC

VARIABLES pc, out, data_path, raw_file, raw, events, epochs, evoked,
          figures, failure, log

vars == <<pc, out, data_path, raw_file, raw, events, epochs, evoked,
          figures, failure, log>>

\* the values of the names before the statement that assigns them has run
None == "None"
NoPath == [kind |-> None, value |-> None]
NoRaw == [sfreq |-> 0, data |-> [ch \in {} |-> <<>>], projs |-> <<>>]
NoEvents == <<[sample |-> -1, prev |-> 0, code |-> 0]>>
NoEpochs == [sfreq |-> 0, start_idx |-> 0, stop_idx |-> 0, scale |-> 0, items |-> <<>>]
NoEvoked == [nave |-> 0, den |-> 0, start_idx |-> 0, sfreq |-> 0, data |-> [ch \in {} |-> <<>>]]
NoFailure == [step |-> None, cause |-> None]

(* ------------------------------------------------------------------ *)
(* Bounds of the recordings the model reads                           *)
(* ------------------------------------------------------------------ *)
\* number of samples of a recording
NTimes == 120
\* largest trigger code on the stimulus channel
MaxCode == 5
\* number of different EEG sample matrices the filter may produce
NSeeds == 2
\* samples a trigger pulse lasts
PulseLen == 2
\* sample indices (0-based) at which a trigger pulse may start
SlotPos == <<10, 55, 65, 100>>
\* trigger pulses of the three other conditions, inside the recording
CorePulses == <<[pos |-> 25, code |-> 2], [pos |-> 35, code |-> 3], [pos |-> 45, code |-> 4]>>
\* sampling rates (Hz) of the recordings
SFreqs == {60, 84, 100}

EEG == <<"EEG 001", "EEG 002">>
EEGSet == {EEG[k] : k \in 1..Len(EEG)}
STIM == "STI 014"

(* ------------------------------------------------------------------ *)
(* Constants of the script                                            *)
(* ------------------------------------------------------------------ *)
LOADING == "Loading sample EEG dataset..."
FINISHED == "EEG preprocessing demo finished successfully!"
RAW_SUFFIX == "/MEG/sample/sample_audvis_raw.fif"
\* raw.filter(1., 40., ...)
l_freq == 1
h_freq == 40
\* tmin = -0.2 and tmax = 0.5, in tenths of a second
tmin10 == -2
tmax10 == 5
Tenths == 10

event_id == [l \in {"auditory/left", "auditory/right", "visual/left", "visual/right"} |->
               CASE l = "auditory/left" -> 1
                 [] l = "auditory/right" -> 2
                 [] l = "visual/left" -> 3
                 [] l = "visual/right" -> 4]

Labels == DOMAIN event_id
MappedCodes == {event_id[l] : l \in Labels}

(* ------------------------------------------------------------------ *)
(* Control flow: the statements in the order of the file              *)
(* ------------------------------------------------------------------ *)
Order == <<"print_loading", "data_path", "raw_file", "read_raw_fif", "filter",
           "set_eeg_reference", "find_events", "Epochs", "average", "plot",
           "print_finished">>

IndexOf(step) == CHOOSE k \in 1..Len(Order) : Order[k] = step

\* variant: control passes over the filter statement
NextPcSkip(step) ==
  LET k == IndexOf(step)
  IN  IF k = Len(Order) THEN "done"
      ELSE IF Order[k + 1] = "filter" THEN Order[k + 2] ELSE Order[k + 1]

\* the statement that follows `step` in the file
NextPc(step) ==
  LET k == IndexOf(step)
  IN  IF k = Len(Order) THEN "done" ELSE Order[k + 1]

\* variant: the exception is swallowed and the next statement runs
RaiseCaught(cause) ==
  /\ pc' = NextPc(pc)
  /\ failure' = [step |-> pc, cause |-> cause]
  /\ log' = log
  /\ UNCHANGED <<out, data_path, raw_file, raw, events, epochs, evoked, figures>>

\* an uncaught exception: the interpreter prints the traceback and exits
Raise(cause) ==
  /\ pc' = "failed"
  /\ failure' = [step |-> pc, cause |-> cause]
  /\ UNCHANGED <<out, data_path, raw_file, raw, events, epochs, evoked, figures, log>>

\* the statement at pc completed; control falls through to the next one
Advance ==
  /\ pc' = NextPc(pc)
  /\ log' = Append(log, pc)
  /\ failure' = failure

(* ------------------------------------------------------------------ *)
(* Arithmetic helpers                                                 *)
(* ------------------------------------------------------------------ *)
RECURSIVE SumTo(_, _, _)
\* f[lo] + ... + f[hi]
SumTo(f, lo, hi) == IF lo > hi THEN 0 ELSE f[hi] + SumTo(f, lo, hi - 1)

Max(a, b) == IF a >= b THEN a ELSE b
Min(a, b) == IF a <= b THEN a ELSE b

\* Python's round() of num/den for den > 0: to nearest, ties to even
Round(num, den) ==
  LET q == num \div den
      r == num % den
  IN  IF 2 * r < den THEN q
      ELSE IF 2 * r > den THEN q + 1
      ELSE IF q % 2 = 0 THEN q ELSE q + 1

(* ------------------------------------------------------------------ *)
(* The recordings read_raw_fif may find on disk                       *)
(* ------------------------------------------------------------------ *)
\* value of EEG channel number c at sample s (0-based) in sample matrix `seed`
Sample(seed, c, s) ==
  (((s + 1) * (seed + 2 * c)) % 5) + (IF s % (seed + 2) = 0 THEN c ELSE 0)

EEGIndex(ch) == CHOOSE k \in 1..Len(EEG) : EEG[k] = ch

\* the trigger pulses of a recording: the core pulses, when it has them, and
\* one pulse per slot that carries a code other than 0
Pulses(codes, hasCore) ==
  (IF hasCore THEN CorePulses ELSE <<>>)
    \o [k \in 1..Len(SlotPos) |-> [pos |-> SlotPos[k], code |-> codes[k]]]

\* the stimulus channel at sample s (0-based)
StimAt(pulses, s) ==
  LET on == {k \in 1..Len(pulses) :
               pulses[k].code # 0 /\ pulses[k].pos <= s /\ s < pulses[k].pos + PulseLen}
  IN  IF on = {} THEN 0 ELSE pulses[CHOOSE k \in on : TRUE].code

EEGMatrix(seed) ==
  [ch \in EEGSet |-> [i \in 1..NTimes |-> Sample(seed, EEGIndex(ch), i - 1)]]

Recording(sf, pulses, hasStim) ==
  [sfreq |-> sf,
   data  |-> [ch \in EEGSet \cup (IF hasStim THEN {STIM} ELSE {}) |->
                IF ch = STIM THEN [i \in 1..NTimes |-> StimAt(pulses, i - 1)]
                ELSE EEGMatrix(0)[ch]],
   projs |-> <<>>]

SlotCodes == [1..Len(SlotPos) -> 0..MaxCode]

Files ==
  {Recording(sf, Pulses(codes, hasCore), TRUE) :
     sf \in SFreqs, codes \in SlotCodes, hasCore \in BOOLEAN}
    \cup {Recording(sf, <<>>, FALSE) : sf \in SFreqs}

n_times(r) == Len(r.data[EEG[1]])

(* ------------------------------------------------------------------ *)
(* raw.filter(1., 40., fir_design='firwin')                           *)
(* ------------------------------------------------------------------ *)
\* the pass-band edge must lie below the Nyquist frequency
FilterFits(r) == 2 * h_freq <= r.sfreq /\ l_freq < h_freq

\* The FIR band-pass replaces the samples of the data channels; the
\* coefficients are the library's, so the result is one of the matrices
\* 1..NSeeds.  The stimulus channel is not a data channel and is kept.
filter(r, seed) ==
  [r EXCEPT !.data = [ch \in DOMAIN r.data |->
                        IF ch \in EEGSet THEN EEGMatrix(seed)[ch] ELSE r.data[ch]]]

(* ------------------------------------------------------------------ *)
(* raw.set_eeg_reference('average', projection=True)                  *)
(* ------------------------------------------------------------------ *)
AverageRefProj == [desc |-> "Average EEG reference", active |-> FALSE]

\* variant, projection=False: the channel mean is subtracted from the samples
\* at once
set_eeg_reference_applied(r) ==
  [r EXCEPT !.data = [ch \in DOMAIN r.data |->
                        IF ch \in EEGSet
                        THEN [i \in 1..n_times(r) |->
                                Len(EEG) * r.data[ch][i]
                                  - SumTo([k \in 1..Len(EEG) |-> r.data[EEG[k]][i]], 1, Len(EEG))]
                        ELSE r.data[ch]]]

\* projection=True: the reference is added as a projector that is not yet
\* applied; the samples stay as they are
set_eeg_reference(r) == [r EXCEPT !.projs = Append(r.projs, AverageRefProj)]

(* ------------------------------------------------------------------ *)
(* mne.find_events(raw, stim_channel='STI 014')                       *)
(* ------------------------------------------------------------------ *)
\* variant: every change of the channel, also the return to zero
IsStep(stim, s) == stim[s + 1] # stim[s]

\* an onset at sample s >= 1: the channel changes to a non-zero value, from
\* zero or to a larger value (consecutive='increasing', initial_event=False)
IsOnset(stim, s) ==
  /\ stim[s + 1] # stim[s]
  /\ stim[s + 1] # 0
  /\ (stim[s] = 0 \/ stim[s + 1] > stim[s])

\* the samples at which the channel has an onset, in increasing order
Onsets(stim) ==
  SelectSeq([s \in 1..(Len(stim) - 1) |-> s], LAMBDA s : IsOnset(stim, s))

\* one row [sample, value before, value after] per onset
find_events(r) ==
  LET stim == r.data[STIM]
      at   == Onsets(stim)
  IN  [k \in 1..Len(at) |->
         [sample |-> at[k], prev |-> stim[at[k]], code |-> stim[at[k] + 1]]]

(* ------------------------------------------------------------------ *)
(* mne.Epochs(raw, events, event_id, tmin=-0.2, tmax=0.5,             *)
(*            baseline=(None, 0), preload=True)                       *)
(* ------------------------------------------------------------------ *)
\* first and last sample of the window, relative to the event
start_idx(sf) == Round(tmin10 * sf, Tenths)

stop_idx(sf) == Round(tmax10 * sf, Tenths)

\* labels none of whose events occur (on_missing='raise')
MissingLabels(ev) ==
  {l \in Labels : \A k \in 1..Len(ev) : ev[k].code # event_id[l]}

\* variant: every event gets an epoch
IsAnyEvent(e) == TRUE

\* events with a code of the mapping get an epoch
IsMapped(e) == e.code \in MappedCodes

\* variant: a window that leaves the recording is cut short instead
FitsAlways(r, s) == TRUE

\* the window of the event at sample s lies inside the recording; an epoch
\* whose window does not is dropped when the data are loaded
Fits(r, s) ==
  /\ s + start_idx(r.sfreq) >= 0
  /\ s + stop_idx(r.sfreq) <= n_times(r) - 1

\* the average reference projector applied to the value v of an EEG channel,
\* where total is the sum of the values of all EEG channels at that time
\* point, in units of 1/Len(EEG); without the projector the value itself
Projected(r, v, total) ==
  IF \E k \in 1..Len(r.projs) : r.projs[k] = AverageRefProj
  THEN Len(EEG) * v - total
  ELSE Len(EEG) * v

\* variant, baseline=(None, None): the baseline takes the whole window
BaselineCountAll(r, s) ==
  Min(n_times(r) - 1, s + stop_idx(r.sfreq)) - Max(0, s + start_idx(r.sfreq)) + 1

\* baseline=(None, 0): the number of samples of the window from its start up
\* to and including the event (time <= 0)
BaselineCount(r, s) == s - Max(0, s + start_idx(r.sfreq)) + 1

RECURSIVE BaselineSums(_, _, _, _)
\* for the EEG channels 1..k, the sum of the nb samples from index lo + 1 on
BaselineSums(r, k, lo, nb) ==
  IF k = 0 THEN <<>>
  ELSE Append(BaselineSums(r, k - 1, lo, nb), SumTo(r.data[EEG[k]], lo + 1, lo + nb))

\* The samples of one epoch, per channel, in units of
\* 1/(Len(EEG) * BaselineCount): the window around sample s; in the data (EEG)
\* channels the mean over the baseline is subtracted and the projector is
\* applied (proj=True); the stimulus channel stays as recorded.
EpochData(r, s) ==
  LET lo == Max(0, s + start_idx(r.sfreq))
      hi == Min(n_times(r) - 1, s + stop_idx(r.sfreq))
      W  == hi - lo + 1
      nb == BaselineCount(r, s)
      B  == BaselineSums(r, Len(EEG), lo, nb)
  IN  [ch \in DOMAIN r.data |->
         IF ch \in EEGSet
         THEN [j \in 1..W |->
                 Projected(r, nb * r.data[ch][lo + j] - B[EEGIndex(ch)],
                           SumTo([k \in 1..Len(EEG) |-> nb * r.data[EEG[k]][lo + j] - B[k]],
                                 1, Len(EEG)))]
         ELSE [j \in 1..W |-> Len(EEG) * nb * r.data[ch][lo + j]]]

EpochsOf(r, ev) ==
  LET kept == SelectSeq(ev, LAMBDA e : IsMapped(e) /\ Fits(r, e.sample))
  IN  [sfreq     |-> r.sfreq,
       start_idx |-> start_idx(r.sfreq),
       stop_idx  |-> stop_idx(r.sfreq),
       scale     |-> Len(EEG) * (1 - start_idx(r.sfreq)),
       items     |-> [k \in 1..Len(kept) |->
                        [sample |-> kept[k].sample,
                         code   |-> kept[k].code,
                         data   |-> EpochData(r, kept[k].sample)]]]

(* ------------------------------------------------------------------ *)
(* epochs['auditory/left'].average()                                  *)
(* ------------------------------------------------------------------ *)
\* variant: the label is ignored
SelectAll(eps, label) == eps.items

\* epochs[label]: the epochs tagged with the label
Select(eps, label) == SelectSeq(eps.items, LAMBDA e : e.code = event_id[label])

SameShape(sel, W) ==
  \A k \in 1..Len(sel) : \A ch \in DOMAIN sel[k].data : Len(sel[k].data[ch]) = W

\* variant: the divisor is one too small
NaveLessOne(sel) == Len(sel) - 1

\* number of epochs averaged
Nave(sel) == Len(sel)

\* The mean over the selected epochs, per data channel and time point, kept
\* as the sum `data` over the denominator `den`; den = 0 is 0/0, a NaN.
average(eps, sel) ==
  LET W == eps.stop_idx - eps.start_idx + 1
  IN  [nave      |-> Nave(sel),
       den       |-> eps.scale * Nave(sel),
       start_idx |-> eps.start_idx,
       sfreq     |-> eps.sfreq,
       data      |-> [ch \in EEGSet |->
                        [j \in 1..W |->
                           SumTo([k \in 1..Len(sel) |-> sel[k].data[ch][j]], 1, Len(sel))]]]

HasNaN(ev) == ev.den = 0

(* ------------------------------------------------------------------ *)
(* The statements of the script                                       *)
(* ------------------------------------------------------------------ *)
Init ==
  /\ pc = "print_loading"
  /\ out = <<>>
  /\ data_path = NoPath
  /\ raw_file = None
  /\ raw = NoRaw
  /\ events = NoEvents
  /\ epochs = NoEpochs
  /\ evoked = NoEvoked
  /\ figures = <<>>
  /\ failure = NoFailure
  /\ log = <<>>

PrintLoading ==
  /\ pc = "print_loading"
  /\ out' = Append(out, LOADING)
  /\ Advance
  /\ UNCHANGED <<data_path, raw_file, raw, events, epochs, evoked, figures>>

\* data_path = mne.datasets.sample.data_path()
DataPath ==
  /\ pc = "data_path"
  /\ \/ Raise("dataset_unavailable")
     \/ /\ \E kind \in {"str", "Path"} :
             data_path' = [kind |-> kind, value |-> "mne_data/MNE-sample-data"]
        /\ Advance
        /\ UNCHANGED <<out, raw_file, raw, events, epochs, evoked, figures>>

\* raw_file = data_path + "/MEG/sample/sample_audvis_raw.fif"
RawFile ==
  /\ pc = "raw_file"
  /\ IF data_path.kind = "str"
     THEN /\ raw_file' = data_path.value \o RAW_SUFFIX
          /\ Advance
          /\ UNCHANGED <<out, data_path, raw, events, epochs, evoked, figures>>
     ELSE Raise("TypeError")

\* raw = mne.io.read_raw_fif(raw_file, preload=True)
ReadRawFif ==
  /\ pc = "read_raw_fif"
  /\ \/ Raise("file_unreadable")
     \/ /\ \E f \in Files : raw' = f
        /\ Advance
        /\ UNCHANGED <<out, data_path, raw_file, events, epochs, evoked, figures>>

\* raw.filter(1., 40., fir_design='firwin')
Filter ==
  /\ pc = "filter"
  /\ IF FilterFits(raw)
     THEN /\ \E seed \in 1..NSeeds : raw' = filter(raw, seed)
          /\ Advance
          /\ UNCHANGED <<out, data_path, raw_file, events, epochs, evoked, figures>>
     ELSE Raise("h_freq_above_nyquist")

\* raw.set_eeg_reference('average', projection=True)
SetEegReference ==
  /\ pc = "set_eeg_reference"
  /\ raw' = set_eeg_reference(raw)
  /\ Advance
  /\ UNCHANGED <<out, data_path, raw_file, events, epochs, evoked, figures>>

\* events = mne.find_events(raw, stim_channel='STI 014')
FindEvents ==
  /\ pc = "find_events"
  /\ IF STIM \in DOMAIN raw.data
     THEN /\ events' = find_events(raw)
          /\ Advance
          /\ UNCHANGED <<out, data_path, raw_file, raw, epochs, evoked, figures>>
     ELSE Raise("no_stim_channel")

\* epochs = mne.Epochs(raw, events, event_id, ...)
MakeEpochs ==
  /\ pc = "Epochs"
  /\ IF MissingLabels(events) = {}
     THEN /\ epochs' = EpochsOf(raw, events)
          /\ Advance
          /\ UNCHANGED <<out, data_path, raw_file, raw, events, evoked, figures>>
     ELSE Raise("no_matching_events")

\* evoked = epochs['auditory/left'].average()
Average ==
  /\ pc = "average"
  /\ LET sel == Select(epochs, "auditory/left")
     IN  IF SameShape(sel, epochs.stop_idx - epochs.start_idx + 1)
         THEN /\ evoked' = average(epochs, sel)
              /\ Advance
              /\ UNCHANGED <<out, data_path, raw_file, raw, events, epochs, figures>>
         ELSE Raise("shape_mismatch")

\* evoked.plot(); what the plot of a waveform of NaNs does is the library's
Plot ==
  /\ pc = "plot"
  /\ \/ /\ HasNaN(evoked)
        /\ Raise("nan_plot")
     \/ /\ figures' = Append(figures, evoked)
        /\ Advance
        /\ UNCHANGED <<out, data_path, raw_file, raw, events, epochs, evoked>>

\* print("EEG preprocessing demo finished successfully!")
PrintFinished ==
  /\ pc = "print_finished"
  /\ out' = Append(out, FINISHED)
  /\ Advance
  /\ UNCHANGED <<data_path, raw_file, raw, events, epochs, evoked, figures>>

Next ==
  \/ PrintLoading
  \/ DataPath
  \/ RawFile
  \/ ReadRawFif
  \/ Filter
  \/ SetEegReference
  \/ FindEvents
  \/ MakeEpochs
  \/ Average
  \/ Plot
  \/ PrintFinished

Spec == Init /\ [][Next]_vars

(* ------------------------------------------------------------------ *)
(* Properties                                                         *)
(* ------------------------------------------------------------------ *)
RECURSIVE SetSum(_, _)
\* the sum of f[k] over the k in set S
SetSum(f, S) ==
  IF S = {} THEN 0 ELSE LET k == CHOOSE x \in S : TRUE IN f[k] + SetSum(f, S \ {k})

Abs(x) == IF x < 0 THEN -x ELSE x

Prefix(n) == SubSeq(Order, 1, n)

Printed(msg) == \E k \in 1..Len(out) : out[k] = msg

\* failures that come from the dataset: it is absent or unreadable, sampled
\* too slowly for the 40 Hz band edge, lacks the trigger channel or the events
\* of a label, or leaves the averaged group empty
DatasetCauses ==
  {"dataset_unavailable", "file_unreadable", "h_freq_above_nyquist",
   "no_stim_channel", "no_matching_events", "shape_mismatch", "nan_plot"}

\* window bounds and sizes recomputed from tmin, tmax and the sampling rate
WinStart(sf) == Round(tmin10 * sf, Tenths)
WinStop(sf) == Round(tmax10 * sf, Tenths)
WinLen(sf) == WinStop(sf) - WinStart(sf) + 1
InBounds(s, sf) == s + WinStart(sf) >= 0 /\ s + WinStop(sf) <= NTimes - 1

\* sample i (1-based) of an EEG channel of the recording minus the mean of
\* the EEG channels at that sample, in units of 1/Len(EEG)
RawProjected(ch, i) ==
  Len(EEG) * raw.data[ch][i] - SumTo([c \in 1..Len(EEG) |-> raw.data[EEG[c]][i]], 1, Len(EEG))

SampleCode(seq) == [k \in 1..Len(seq) |-> <<seq[k].sample, seq[k].code>>]

\* C1: a run on the standard sample dataset ends without an unhandled
\* failure, and the last thing it does is print the success message.  A run
\* may fail only for a cause that lies in the dataset.
C1_EndToEnd ==
  /\ failure # NoFailure => failure.cause \in DatasetCauses
  /\ pc = "done" => (out # <<>> /\ out[Len(out)] = FINISHED /\ log = Order)

\* C2: a failing statement ends the process there: control is at "failed",
\* exactly the statements before the failing one have completed, nothing can
\* run any more, no figure exists when the failure is at or before the plot,
\* and the success message is not printed.
C2_FailureTerminates ==
  failure # NoFailure =>
    /\ pc = "failed"
    /\ log = Prefix(IndexOf(failure.step) - 1)
    /\ ~ENABLED Next
    /\ (IndexOf(failure.step) <= IndexOf("plot") => figures = <<>>)
    /\ ~Printed(FINISHED)

C2_Witness ==
  /\ pc = "failed"
  /\ failure.step = "Epochs"
  /\ Len(log) = IndexOf("Epochs") - 1

C4_SpanExact ==
  epochs # NoEpochs =>
    \A k \in 1..Len(epochs.items) : \A ch \in DOMAIN epochs.items[k].data :
      Tenths * (Len(epochs.items[k].data[ch]) - 1) = (tmax10 - tmin10) * epochs.sfreq

\* C4 amended: every epoch holds every channel of the recording with the same
\* number of samples, round(tmax*sfreq) - round(tmin*sfreq) + 1; its span is
\* within one sample period of tmax - tmin and equal to it when the sampling
\* rate is a multiple of 10 Hz; no epoch is shorter at the edges.
C4_SameShape ==
  epochs # NoEpochs =>
    /\ epochs.stop_idx - epochs.start_idx + 1 = WinLen(epochs.sfreq)
    /\ \A k \in 1..Len(epochs.items) :
         /\ DOMAIN epochs.items[k].data = DOMAIN raw.data
         /\ \A ch \in DOMAIN raw.data :
              LET n == Len(epochs.items[k].data[ch])
              IN  /\ n = WinLen(epochs.sfreq)
                  /\ Abs(Tenths * (n - 1) - (tmax10 - tmin10) * epochs.sfreq) <= Tenths
                  /\ (epochs.sfreq % Tenths = 0
                        => Tenths * (n - 1) = (tmax10 - tmin10) * epochs.sfreq)

C4_Witness ==
  /\ epochs # NoEpochs
  /\ Len(epochs.items) >= 3
  /\ epochs.sfreq % Tenths # 0
  /\ \E k \in 1..Len(events) :
       events[k].code \in MappedCodes /\ ~InBounds(events[k].sample, epochs.sfreq)

C6_StepOrder ==
  /\ Len(log) <= Len(Order)
  /\ log = Prefix(Len(log))
  /\ (pc \notin {"done", "failed"} => (Len(log) < Len(Order) /\ pc = Order[Len(log) + 1]))
  /\ (pc = "failed" => (Len(log) < Len(Order) /\ failure.step = Order[Len(log) + 1]))
  /\ (pc = "done" =>
        /\ log = Order
        /\ Cardinality({k \in 1..Len(log) : log[k] = "read_raw_fif"}) = 1
        /\ Len(figures) = 1
        /\ out = <<LOADING, FINISHED>>)
  /\ (raw # NoRaw <=> Len(log) >= IndexOf("read_raw_fif"))
  /\ (events # NoEvents <=> Len(log) >= IndexOf("find_events"))
  /\ (epochs # NoEpochs <=> Len(log) >= IndexOf("Epochs"))
  /\ (evoked # NoEvoked <=> Len(log) >= IndexOf("average"))
  /\ (figures # <<>> <=> Len(log) >= IndexOf("plot"))

C6_Witness == pc = "done" /\ log = Order /\ Len(figures) = 1

\* C7: the re-reference statement leaves every sample as the filter left it
\* (it only adds the projector); no statement but the load and the filter
\* changes a sample, and the statements after the re-reference change neither
\* the recording nor, once it exists, the event table.
C7_Frame ==
  [][ /\ (pc = "set_eeg_reference" => raw'.data = raw.data)
      /\ (pc \notin {"read_raw_fif", "filter", "set_eeg_reference"} => raw' = raw)
      /\ (pc \in {"read_raw_fif", "filter"} /\ pc' = "failed" => raw' = raw)
      /\ (pc # "find_events" => events' = events) ]_vars

C7_Witness ==
  /\ pc = "find_events"
  /\ raw.projs = <<AverageRefProj>>
  /\ \E seed \in 1..NSeeds : \A ch \in EEGSet : raw.data[ch] = EEGMatrix(seed)[ch]

\* C8 as stated: one epoch for each event whose code is in the mapping.
C8_OnePerMappedEvent ==
  epochs # NoEpochs =>
    SampleCode(epochs.items) = SampleCode(SelectSeq(events, LAMBDA e : e.code \in MappedCodes))

\* C8 amended: the epochs are, in order, the events whose code is in the
\* mapping and whose window lies inside the recording; each is tagged with the
\* event's code and holds the samples around the event's sample index.
C8_OnePerFittingMappedEvent ==
  epochs # NoEpochs =>
    /\ SampleCode(epochs.items)
         = SampleCode(SelectSeq(events, LAMBDA e :
               e.code \in MappedCodes /\ InBounds(e.sample, raw.sfreq)))
    /\ \A k \in 1..Len(epochs.items) :
         LET e == epochs.items[k]
         IN  /\ \E l \in Labels : event_id[l] = e.code
             /\ \A j \in 1..WinLen(raw.sfreq) :
                  e.data[STIM][j]
                    = epochs.scale * raw.data[STIM][e.sample + WinStart(raw.sfreq) + j]
             /\ e.data[STIM][1 - WinStart(raw.sfreq)] = epochs.scale * e.code

C8_Witness ==
  /\ epochs # NoEpochs
  /\ Len(epochs.items) >= 4
  /\ \E k \in 1..Len(events) : events[k].code \notin MappedCodes
  /\ \E k \in 1..Len(events) :
       events[k].code \in MappedCodes /\ ~InBounds(events[k].sample, raw.sfreq)

\* C9: the average is, per data channel and time point, the sum over the
\* epochs tagged 'auditory/left' and over no others, divided by their number.
C9_EvokedMean ==
  evoked # NoEvoked =>
    LET idx == {k \in 1..Len(epochs.items) : epochs.items[k].code = event_id["auditory/left"]}
    IN  /\ evoked.nave = Cardinality(idx)
        /\ evoked.den = epochs.scale * Cardinality(idx)
        /\ \A ch \in EEGSet : \A j \in 1..WinLen(epochs.sfreq) :
             evoked.data[ch][j] = SetSum([k \in idx |-> epochs.items[k].data[ch][j]], idx)

C9_Witness ==
  /\ evoked # NoEvoked
  /\ evoked.nave = 2
  /\ Len(epochs.items) > 3
  /\ \E ch \in EEGSet : \E j \in 1..WinLen(epochs.sfreq) :
       /\ evoked.data[ch][j] # 0
       /\ evoked.data[ch][j]
            # SetSum([k \in 1..Len(epochs.items) |-> epochs.items[k].data[ch][j]],
                     1..Len(epochs.items))

\* C10 as stated: in every channel of every epoch the mean over the
\* pre-event interval is zero after the correction.
C10_AllChannels ==
  epochs # NoEpochs =>
    \A k \in 1..Len(epochs.items) : \A ch \in DOMAIN epochs.items[k].data :
      SumTo(epochs.items[k].data[ch], 1, 1 - WinStart(epochs.sfreq)) = 0

\* C10 amended: in every data (EEG) channel of every epoch the mean over the
\* pre-event interval (window start up to the event) is zero and the samples
\* differ from the projected samples of the recording by one constant; the
\* trigger channel of the epoch is left as recorded.  Each epoch is determined
\* by the recording and its own event alone.
C10_DataChannels ==
  epochs # NoEpochs =>
    \A k \in 1..Len(epochs.items) :
      LET e   == epochs.items[k]
          nb  == 1 - WinStart(raw.sfreq)
          off == e.sample + WinStart(raw.sfreq)
      IN  /\ epochs.scale = Len(EEG) * nb
          /\ \A ch \in EEGSet :
               /\ SumTo(e.data[ch], 1, nb) = 0
               /\ \A j \in 1..WinLen(raw.sfreq) :
                    e.data[ch][j] - e.data[ch][1]
                      = nb * (RawProjected(ch, off + j) - RawProjected(ch, off + 1))
          /\ \A j \in 1..WinLen(raw.sfreq) :
               e.data[STIM][j] = epochs.scale * raw.data[STIM][off + j]

C10_Witness ==
  /\ epochs # NoEpochs
  /\ Len(epochs.items) >= 2
  /\ \E k \in 1..Len(epochs.items) : \E ch \in EEGSet :
       /\ epochs.items[k].data[ch][1] # 0
       /\ \E j \in 1..WinLen(raw.sfreq) :
            epochs.items[k].data[ch][j] # epochs.items[k].data[ch][1]
====
